---- MODULE Spec2Model ----
(***************************************************************************)
(* Model of the incremental constraint solver of tametsi                   *)
(* (src/src/solver.rs) and of the puzzle records it is built from          *)
(* (src/src/core.rs).  A BitArray is modelled as the set of its one-bits,  *)
(* a HashSet as a set whose iteration order is chosen nondeterministically,*)
(* a panic (assert!, expect, index out of bounds, usize underflow) as the   *)
(* flag `panicked`.                                                        *)
(***************************************************************************)
EXTENDS Integers, Sequences, FiniteSets, TLC

\* ---------------------------------------------------------------- bounds
MaxN == 3          \* largest number of cells of a generated puzzle
MaxHints == 2      \* longest hint list of a generated puzzle
MaxUnknowns == 1   \* most cells with hidden content of a generated puzzle
MaxRounds == 2     \* the replenish counter of one step call saturates here
MaxInjected == 2   \* most constraints added by hand to a fresh solver
MaxInjectCells == 3 \* largest puzzle whose solver gets constraints by hand
MaxCrossCells == 3 \* cells of the constraints given to cross_constraints alone

\* ------------------------------------------------------ program constants
DefaultMaxCells == 3    \* second argument of Solver::new in start_engine
DefaultMaxMines == 9    \* third argument of Solver::new in start_engine

\* ------------------------------------------------------------- utilities
min(a, b) == IF a <= b THEN a ELSE b
max(a, b) == IF a >= b THEN a ELSE b
saturating_sub(a, b) == IF a >= b THEN a - b ELSE 0
count_ones(bits) == Cardinality(bits)
first_one(bits) == CHOOSE i \in bits : \A j \in bits : i <= j
Cells(n) == 0 .. (n - 1)

\* ------------------------------------------------------------ Constraint
Constraint(bits, lo, hi, size) ==
    [bits |-> bits, min_mines |-> lo, max_mines |-> hi, size |-> size]

\* is_solved that forgets the constraints full of mines
is_solved_max_zero_only(c) == c.max_mines = 0

is_solved(c) == c.max_mines = 0 \/ c.min_mines = c.size

\* is_useless that never holds
is_useless_never(c) == FALSE

is_useless(c) == c.min_mines = 0 /\ c.max_mines = c.size

\* ---------------------------------------------------------------- Puzzle
Puzzle(n, neighbors, mines, unknowns, revealed, hints) ==
    [n |-> n, neighbors |-> neighbors, mines |-> mines, unknowns |-> unknowns,
     revealed |-> revealed, hints |-> hints]

NoEdges(n) == [i \in Cells(n) |-> {}]
PathGraph(n) == [i \in Cells(n) |-> {i - 1, i + 1} \cap Cells(n)]
RingGraph(n) == [i \in Cells(n) |-> {(i + 1) % n, (i + n - 1) % n} \ {i}]
StarGraph(n) ==
    [i \in Cells(n) |-> IF i = n - 1 THEN Cells(n) \ {i} ELSE {n - 1}]
Graphs(n) == {NoEdges(n), PathGraph(n), RingGraph(n), StarGraph(n)}

Prefix(k) == 0 .. (k - 1)

RECURSIVE HintLists(_, _)
HintLists(n, len) ==
    IF len = 0 THEN {<<>>}
    ELSE LET shorter == HintLists(n, len - 1)
         IN  shorter \cup
             UNION {{Append(h, Prefix(k)) :
                        k \in {j \in 1 .. n :
                                  \A i \in 1 .. Len(h) :
                                      j < Cardinality(h[i])}} :
                    h \in {x \in shorter : Len(x) = len - 1}}

\* a star of five cells with two hints that share the centre
StarPuzzle == Puzzle(5, StarGraph(5), {3, 4}, {}, {}, <<{2, 3, 4}, {0, 1, 4}>>)

\* a path of four cells, one mine, one pre-revealed cell, no hints
GatePuzzle == Puzzle(4, PathGraph(4), {2}, {}, {1}, <<>>)

\* four cells without edges and three hints: crossing {2,3} with {0,1,2}
\* leaves {0,1} with max_mines = size, and the hint {0} has cell 0 revealed
ClampPuzzle == Puzzle(4, NoEdges(4), {1, 2}, {}, {}, <<{0, 1, 2}, {2, 3}, {0}>>)

\* the same regions with other mines: the crossing leaves {0,1} with
\* min_mines = 0, and the hint {0} has cell 0 flagged
SaturatePuzzle ==
    Puzzle(4, NoEdges(4), {0, 3}, {}, {}, <<{0, 1, 2}, {2, 3}, {0}>>)

Catalog == {StarPuzzle, GatePuzzle, ClampPuzzle, SaturatePuzzle}

S5Caps == [max_cells |-> 1, max_mines |-> 0]
DefaultCaps == [max_cells |-> DefaultMaxCells, max_mines |-> DefaultMaxMines]
CapsChoices == {DefaultCaps, S5Caps}

\* ---------------------------------------------------------------- Solver
Panic(s) == [s EXCEPT !.panicked = TRUE]

\* remove_constraint that leaves square_constraints alone
remove_constraint_keeps_index(s, constraint) ==
    IF s.panicked THEN s
    ELSE IF is_solved(constraint)
    THEN IF constraint \in s.solved
         THEN [s EXCEPT !.solved = @ \ {constraint}]
         ELSE Panic(s)
    ELSE LET s1 == [s EXCEPT !.removed = @ \cup {constraint}]
         IN  IF \E k \in s.unsolved : k.bits = constraint.bits
             THEN [s1 EXCEPT !.unsolved =
                                 {k \in @ : k.bits # constraint.bits}]
             ELSE Panic(s1)

remove_constraint(s, constraint) ==
    IF s.panicked THEN s
    ELSE IF is_solved(constraint)
    THEN IF constraint \in s.solved
         THEN IF \A i \in constraint.bits : constraint \in s.square_constraints[i]
              THEN [s EXCEPT !.solved = @ \ {constraint},
                             !.square_constraints =
                                 [i \in DOMAIN @ |-> @[i] \ {constraint}]]
              ELSE Panic(s)
         ELSE Panic(s)
    ELSE LET s1 == [s EXCEPT !.removed = @ \cup {constraint}]
         IN  IF \E k \in s.unsolved : k.bits = constraint.bits
             THEN LET known == CHOOSE k \in s.unsolved : k.bits = constraint.bits
                  IN  IF \A i \in known.bits : known \in s.square_constraints[i]
                      THEN [s1 EXCEPT !.unsolved = @ \ {known},
                                      !.square_constraints =
                                          [i \in DOMAIN @ |-> @[i] \ {known}]]
                      ELSE Panic(s1)
             ELSE Panic(s1)

RECURSIVE add_constraint(_, _)
add_constraint(s, constraint) ==
    IF s.panicked THEN s
    ELSE IF \/ constraint.bits \cap s.revealed # {}
            \/ constraint.bits \cap s.flagged # {}
            \/ constraint.max_mines > constraint.size
    THEN Panic(s)
    ELSE IF is_useless(constraint) THEN s
    ELSE IF \E k \in s.unsolved : k.bits = constraint.bits
    THEN LET known == CHOOSE k \in s.unsolved : k.bits = constraint.bits
         IN  IF /\ known.min_mines >= constraint.min_mines
                /\ known.max_mines <= constraint.max_mines
             THEN s
             ELSE add_constraint(
                      remove_constraint(s, known),
                      Constraint(constraint.bits,
                                 max(known.min_mines, constraint.min_mines),
                                 min(known.max_mines, constraint.max_mines),
                                 count_ones(constraint.bits)))
    ELSE LET s1 ==
                 IF is_solved(constraint)
                 THEN [s EXCEPT !.solved = @ \cup {constraint}]
                 ELSE LET ins == [s EXCEPT !.unsolved = @ \cup {constraint}]
                      IN  IF \/ constraint.size = 0
                             \/ constraint.max_mines < constraint.min_mines
                             \/ (constraint.size - 1) \notin DOMAIN s.processing_stack
                             \/ (constraint.max_mines - constraint.min_mines)
                                    \notin DOMAIN s.processing_stack
                          THEN Panic(ins)
                          ELSE [ins EXCEPT
                                   !.processing_stack[constraint.size - 1]
                                                     [constraint.max_mines
                                                        - constraint.min_mines] =
                                       Append(@, constraint)]
         IN  IF s1.panicked THEN s1
             ELSE [s1 EXCEPT !.square_constraints =
                      [i \in DOMAIN @ |->
                          IF i \in constraint.bits THEN @[i] \cup {constraint}
                          ELSE @[i]]]

add_constraint_from_mine_count(s, bits0) ==
    LET bits == (bits0 \ s.revealed) \ s.flagged
        mines == count_ones(bits \cap s.base.mines)
    IN  add_constraint(s, Constraint(bits, mines, mines, count_ones(bits)))

\* get_neighbor_constraint that keeps the revealed and flagged neighbors
get_neighbor_constraint_unmasked(s, square_index) ==
    LET unknown_neighbors == s.base.neighbors[square_index]
        remaining_mines == count_ones(unknown_neighbors \cap s.base.mines)
    IN  Constraint(unknown_neighbors, remaining_mines, remaining_mines,
                   count_ones(unknown_neighbors))

get_neighbor_constraint(s, square_index) ==
    LET unknown_neighbors ==
            (s.base.neighbors[square_index] \ s.revealed) \ s.flagged
        remaining_mines == count_ones(unknown_neighbors \cap s.base.mines)
    IN  Constraint(unknown_neighbors, remaining_mines, remaining_mines,
                   count_ones(unknown_neighbors))

\* cross_constraints whose intersection minimum looks at `left` only
cross_constraints_left_min(left, right) ==
    LET intersection == left.bits \cap right.bits
        intersection_count == count_ones(intersection)
        intersection_min ==
            saturating_sub(left.min_mines + intersection_count, left.size)
        intersection_max ==
            min(min(intersection_count, left.max_mines), right.max_mines)
        left_overlap == left.bits \ right.bits
        right_overlap == right.bits \ left.bits
    IN  <<Constraint(intersection, intersection_min, intersection_max,
                     count_ones(intersection))>>
        \o (IF left_overlap # {}
            THEN <<Constraint(left_overlap,
                              saturating_sub(left.min_mines, intersection_max),
                              min(saturating_sub(left.max_mines, intersection_min),
                                  left.size - intersection_count),
                              count_ones(left_overlap))>>
            ELSE <<>>)
        \o (IF right_overlap # {}
            THEN <<Constraint(right_overlap,
                              saturating_sub(right.min_mines, intersection_max),
                              min(saturating_sub(right.max_mines, intersection_min),
                                  right.size - intersection_count),
                              count_ones(right_overlap))>>
            ELSE <<>>)

\* cross_constraints that derives the intersection only
cross_constraints_intersection_only(left, right) ==
    LET intersection == left.bits \cap right.bits
        intersection_count == count_ones(intersection)
        intersection_min ==
            max(saturating_sub(left.min_mines + intersection_count, left.size),
                saturating_sub(right.min_mines + intersection_count, right.size))
        intersection_max ==
            min(min(intersection_count, left.max_mines), right.max_mines)
    IN  <<Constraint(intersection, intersection_min, intersection_max,
                     count_ones(intersection))>>

\* cross_constraints whose overlap maxima subtract the intersection maximum
cross_constraints_overlap_minus_max(left, right) ==
    LET intersection == left.bits \cap right.bits
        intersection_count == count_ones(intersection)
        intersection_min ==
            max(saturating_sub(left.min_mines + intersection_count, left.size),
                saturating_sub(right.min_mines + intersection_count, right.size))
        intersection_max ==
            min(min(intersection_count, left.max_mines), right.max_mines)
        left_overlap == left.bits \ right.bits
        right_overlap == right.bits \ left.bits
    IN  <<Constraint(intersection, intersection_min, intersection_max,
                     count_ones(intersection))>>
        \o (IF left_overlap # {}
            THEN <<Constraint(left_overlap,
                              saturating_sub(left.min_mines, intersection_max),
                              min(saturating_sub(left.max_mines, intersection_max),
                                  left.size - intersection_count),
                              count_ones(left_overlap))>>
            ELSE <<>>)
        \o (IF right_overlap # {}
            THEN <<Constraint(right_overlap,
                              saturating_sub(right.min_mines, intersection_max),
                              min(saturating_sub(right.max_mines, intersection_max),
                                  right.size - intersection_count),
                              count_ones(right_overlap))>>
            ELSE <<>>)

cross_constraints(left, right) ==
    LET intersection == left.bits \cap right.bits
        intersection_count == count_ones(intersection)
        intersection_min ==
            max(saturating_sub(left.min_mines + intersection_count, left.size),
                saturating_sub(right.min_mines + intersection_count, right.size))
        intersection_max ==
            min(min(intersection_count, left.max_mines), right.max_mines)
        left_overlap == left.bits \ right.bits
        right_overlap == right.bits \ left.bits
    IN  <<Constraint(intersection, intersection_min, intersection_max,
                     count_ones(intersection))>>
        \o (IF left_overlap # {}
            THEN <<Constraint(left_overlap,
                              saturating_sub(left.min_mines, intersection_max),
                              min(saturating_sub(left.max_mines, intersection_min),
                                  left.size - intersection_count),
                              count_ones(left_overlap))>>
            ELSE <<>>)
        \o (IF right_overlap # {}
            THEN <<Constraint(right_overlap,
                              saturating_sub(right.min_mines, intersection_max),
                              min(saturating_sub(right.max_mines, intersection_min),
                                  right.size - intersection_count),
                              count_ones(right_overlap))>>
            ELSE <<>>)

\* the loop body of reveal_square without the cut of max_mines to the size
reveal_one_keeps_max(s, square, c) ==
    IF s.panicked THEN s
    ELSE IF c.size = 0 \/ square \notin c.bits THEN Panic(s)
    ELSE add_constraint(remove_constraint(s, c),
                        Constraint(c.bits \ {square}, c.min_mines,
                                   c.max_mines, c.size - 1))

\* one pass of the loop body of reveal_square for the snapshot entry c
reveal_one(s, square, c) ==
    IF s.panicked THEN s
    ELSE IF c.size = 0 \/ square \notin c.bits THEN Panic(s)
    ELSE LET size == c.size - 1
         IN  add_constraint(remove_constraint(s, c),
                            Constraint(c.bits \ {square}, c.min_mines,
                                       min(c.max_mines, size), size))

\* the loop of reveal_square over the cloned HashSet, in every iteration order
RECURSIVE reveal_each(_, _, _)
reveal_each(s, square, todo) ==
    IF todo = {} THEN {s}
    ELSE UNION {reveal_each(reveal_one(s, square, c), square, todo \ {c}) :
                   c \in todo}

reveal_square(s, square) ==
    IF s.panicked THEN {s}
    ELSE IF square \in s.revealed \/ square \in s.base.mines THEN {Panic(s)}
    ELSE {IF s1.panicked THEN s1
          ELSE LET s2 == [s1 EXCEPT !.revealed = @ \cup {square}]
               IN  IF square \notin s.base.unknowns
                   THEN add_constraint(s2, get_neighbor_constraint(s2, square))
                   ELSE s2 :
             s1 \in reveal_each(s, square, s.square_constraints[square])}

\* the loop body of flag_square that leaves min_mines as it was
flag_one_keeps_min(s, square, c) ==
    IF s.panicked THEN s
    ELSE IF c.max_mines = 0 \/ c.size = 0 \/ square \notin c.bits THEN Panic(s)
    ELSE add_constraint(remove_constraint(s, c),
                        Constraint(c.bits \ {square}, c.min_mines,
                                   c.max_mines - 1, c.size - 1))

\* one pass of the loop body of flag_square for the snapshot entry c
flag_one(s, square, c) ==
    IF s.panicked THEN s
    ELSE IF c.max_mines = 0 \/ c.size = 0 \/ square \notin c.bits THEN Panic(s)
    ELSE add_constraint(remove_constraint(s, c),
                        Constraint(c.bits \ {square},
                                   saturating_sub(c.min_mines, 1),
                                   c.max_mines - 1, c.size - 1))

RECURSIVE flag_each(_, _, _)
flag_each(s, square, todo) ==
    IF todo = {} THEN {s}
    ELSE UNION {flag_each(flag_one(s, square, c), square, todo \ {c}) :
                   c \in todo}

\* flag_square with the copy-paste slip of marking the square revealed
flag_square_marks_revealed(s, square) ==
    IF s.panicked THEN {s}
    ELSE IF square \in s.flagged \/ square \notin s.base.mines THEN {Panic(s)}
    ELSE {IF s1.panicked THEN s1
          ELSE [s1 EXCEPT !.revealed = @ \cup {square}] :
             s1 \in flag_each(s, square, s.square_constraints[square])}

flag_square(s, square) ==
    IF s.panicked THEN {s}
    ELSE IF square \in s.flagged \/ square \notin s.base.mines THEN {Panic(s)}
    ELSE {IF s1.panicked THEN s1
          ELSE [s1 EXCEPT !.flagged = @ \cup {square}] :
             s1 \in flag_each(s, square, s.square_constraints[square])}

\* `for square in bits.iter_ones() { self.reveal_square(square) }`
RECURSIVE reveal_all(_, _)
reveal_all(states, squares) ==
    IF squares = {} THEN states
    ELSE LET square == first_one(squares)
         IN  reveal_all(UNION {reveal_square(s, square) : s \in states},
                        squares \ {square})

\* `for square in to_flag.iter_ones() { self.flag_square(square) }`
RECURSIVE flag_all(_, _)
flag_all(states, squares) ==
    IF squares = {} THEN states
    ELSE LET square == first_one(squares)
         IN  flag_all(UNION {flag_square(s, square) : s \in states},
                      squares \ {square})

\* `for cross in crosses { self.add_constraint(cross) }`
RECURSIVE add_each(_, _)
add_each(s, crosses) ==
    IF crosses = <<>> THEN s
    ELSE add_each(add_constraint(s, Head(crosses)), Tail(crosses))

\* the size gate of add_all_crosses: k is skipped
gated(s, k) == k.max_mines > s.max_mines /\ k.size > s.max_cells

\* to_cross_at without the `seen` mask
to_cross_at_unseen(s, constraint, square) ==
    {k \in s.square_constraints[square] : ~gated(s, k) /\ k # constraint}

\* the constraints of square_constraints[square] that the inner loop of
\* add_all_crosses crosses with `constraint`
to_cross_at(s, constraint, square) ==
    {k \in s.square_constraints[square] :
        /\ ~gated(s, k)
        /\ k.bits \cap {b \in constraint.bits : b < square} = {}
        /\ k # constraint}

\* the crosses of one square, appended to `crosses` in every iteration order
RECURSIVE crosses_of(_, _, _)
crosses_of(prefixes, constraint, todo) ==
    IF todo = {} THEN prefixes
    ELSE UNION {crosses_of({pre \o cross_constraints(constraint, k) :
                                pre \in prefixes},
                           constraint, todo \ {k}) : k \in todo}

\* the Vec `crosses` after the outer loop, for every iteration order
RECURSIVE all_crosses(_, _, _, _)
all_crosses(s, constraint, squares, prefixes) ==
    IF squares = {} THEN prefixes
    ELSE LET square == first_one(squares)
         IN  all_crosses(s, constraint, squares \ {square},
                         crosses_of(prefixes, constraint,
                                    to_cross_at(s, constraint, square)))

add_all_crosses(s, constraint) ==
    {add_each(s, crosses) :
        crosses \in all_crosses(s, constraint, constraint.bits, {<<>>})}

Solver_new(base, max_cells, max_mines) ==
    LET s0 == [base |-> base, revealed |-> {}, flagged |-> {},
               unsolved |-> {},
               processing_stack |->
                   [i \in Cells(base.n) |-> [j \in Cells(base.n) |-> <<>>]],
               square_constraints |-> [i \in Cells(base.n) |-> {}],
               removed |-> {}, solved |-> {},
               all_bits |-> Cells(base.n),
               max_cells |-> max_cells, max_mines |-> max_mines,
               panicked |-> FALSE]
        s1 == IF Len(base.hints) = 0
              THEN add_constraint_from_mine_count(s0, s0.all_bits)
              ELSE s0
    IN  reveal_all({s1}, base.revealed)

\* ------------------------------------------------------------ Solver::step
\* step_drain that applies one member of the solved set and drops the others
step_drain_first_only(s) ==
    UNION {LET s1 == [s EXCEPT !.solved = {c},
                               !.square_constraints =
                                   [i \in DOMAIN @ |-> @[i] \ (s.solved \ {c})]]
           IN  IF c.size = 0 THEN {Panic(s)}
               ELSE IF c.max_mines = 0
               THEN reveal_all({s1}, c.bits)
               ELSE IF c.bits \cap s.revealed # {} \/ c.bits \cap s.flagged # {}
               THEN {Panic(s)}
               ELSE flag_all({s1}, c.bits) : c \in s.solved}

\* first branch of step: the solved set is applied to the puzzle
\* step_drain that flags before it reveals
step_drain_flags_first(s) ==
    LET to_reveal == UNION {c.bits : c \in {k \in s.solved : k.max_mines = 0}}
        to_flag == UNION {c.bits : c \in {k \in s.solved : k.max_mines # 0}}
    IN  IF \E c \in s.solved : c.size = 0 THEN {Panic(s)}
        ELSE IF to_flag \cap s.revealed # {} \/ to_flag \cap s.flagged # {}
        THEN {Panic(s)}
        ELSE reveal_all(flag_all({s}, to_flag), to_reveal)

step_drain(s) ==
    LET to_reveal == UNION {c.bits : c \in {k \in s.solved : k.max_mines = 0}}
        to_flag == UNION {c.bits : c \in {k \in s.solved : k.max_mines # 0}}
    IN  IF \E c \in s.solved : c.size = 0 THEN {Panic(s)}
        ELSE IF to_flag \cap s.revealed # {} \/ to_flag \cap s.flagged # {}
        THEN {Panic(s)}
        ELSE flag_all(reveal_all({s}, to_reveal), to_flag)

\* remaining that forgets the flagged cells
remaining_ignores_flagged(s) == s.base.n - count_ones(s.revealed)

remaining(s) == s.base.n - count_ones(s.revealed \cup s.flagged)

\* the deques of processing_stack that are not empty, as <<row, column>>
nonempty_deques(s) ==
    {ij \in Cells(s.base.n) \X Cells(s.base.n) :
        s.processing_stack[ij[1]][ij[2]] # <<>>}

\* first_deque that scans the deques from the last to the first
first_deque_takes_last(s) ==
    CHOOSE ij \in nonempty_deques(s) :
        \A kl \in nonempty_deques(s) :
            ij[1] > kl[1] \/ (ij[1] = kl[1] /\ ij[2] >= kl[2])

\* iter_mut().flatten().find_map(pop_back): the first non-empty deque
first_deque(s) ==
    CHOOSE ij \in nonempty_deques(s) :
        \A kl \in nonempty_deques(s) :
            ij[1] < kl[1] \/ (ij[1] = kl[1] /\ ij[2] <= kl[2])

back(s) ==
    LET ij == first_deque(s)
        deque == s.processing_stack[ij[1]][ij[2]]
    IN  deque[Len(deque)]

pop_back(s) ==
    LET ij == first_deque(s)
    IN  [s EXCEPT !.processing_stack[ij[1]][ij[2]] = SubSeq(@, 1, Len(@) - 1)]

RECURSIVE add_from_mine_counts(_, _)
add_from_mine_counts(s, regions) ==
    IF regions = <<>> THEN s
    ELSE add_from_mine_counts(add_constraint_from_mine_count(s, Head(regions)),
                              Tail(regions))

\* the else branch of the loop of step: hints and neighborhoods are re-added
step_replenish(s) ==
    add_from_mine_counts(add_from_mine_counts(s, s.base.hints),
                         [i \in 1 .. s.base.n |-> s.base.neighbors[i - 1]])

\* StepResult (UnexpectedStop is never constructed)
NoResult == [kind |-> "None"]
Progress(r, f) == [kind |-> "Progress", revealed |-> r, flagged |-> f]
CrossConstraint(c) == [kind |-> "CrossConstraint", constraint |-> c]
Finished == [kind |-> "Finished"]

\* drain_result with the two masks of Progress exchanged
drain_result_swapped(s, t) ==
    IF remaining(t) = 0 THEN Finished
    ELSE Progress(UNION {c.bits : c \in {k \in s.solved : k.max_mines # 0}},
                  UNION {c.bits : c \in {k \in s.solved : k.max_mines = 0}})

\* the StepResult of the first branch of step, entered in s and left in t
drain_result(s, t) ==
    IF remaining(t) = 0 THEN Finished
    ELSE Progress(UNION {c.bits : c \in {k \in s.solved : k.max_mines = 0}},
                  UNION {c.bits : c \in {k \in s.solved : k.max_mines # 0}})

\* the outcomes <<solver, result>> of the loop of step; the result is
\* NoResult when the call panics and when it never returns: a pass that finds
\* the deques empty right after a replenish pass repeats for ever
RECURSIVE step_loop(_, _)
step_loop(s, replenished) ==
    IF s.panicked THEN {<<s, NoResult>>}
    ELSE IF nonempty_deques(s) # {}
    THEN IF back(s) \in s.removed
         THEN step_loop([pop_back(s) EXCEPT !.removed = @ \ {back(s)}],
                        replenished)
         ELSE {<<t, IF t.panicked THEN NoResult ELSE CrossConstraint(back(s))>> :
                  t \in add_all_crosses(pop_back(s), back(s))}
    ELSE IF replenished THEN {<<s, NoResult>>}
    ELSE step_loop(step_replenish(s), TRUE)

\* the outcomes <<solver, result>> of one call of step
step(s) ==
    IF s.solved # {}
    THEN {<<t, IF t.panicked THEN NoResult ELSE drain_result(s, t)>> :
             t \in step_drain(s)}
    ELSE step_loop(s, FALSE)

\* the engine loop: step is called until it returns Finished; TRUE when that
\* happens whatever the iteration order of the hash sets
RECURSIVE reaches_finished(_)
reaches_finished(s) ==
    \A o \in step(s) :
        \/ o[2].kind = "Finished"
        \/ o[2].kind # "None" /\ reaches_finished(o[1])

\* the solver of `base` finishes when its caps are too large to gate any cross
UngatedFinishes(base) ==
    \A s \in Solver_new(base, base.n, base.n) :
        ~s.panicked /\ reaches_finished(s)

\* ----------------------------------------------------------------- state
VARIABLES
    solver,   \* the Solver object
    pc,       \* "idle": no call in progress; "loop": inside the loop of
              \* step; "panic": the engine thread has panicked
    result,   \* the StepResult of the last call of step that returned
    calls,    \* number of calls of step that have returned
    rounds,   \* replenish passes of the current (or last) call of step
    injected, \* number of constraints added by hand (SpecInject only)
    engine,   \* the locals of start_engine and its command channel
              \* (SpecEngine only)
    app       \* the TemplateApp and its update channel (SpecEngine only)

vars == <<solver, pc, result, calls, rounds, injected, engine, app>>

\* no engine thread: the solver is driven directly
NoEngine == [at |-> "none"]

\* no GUI thread
NoApp == [at |-> "none"]

\* The puzzles a solver is built for: up to MaxN cells, one of the graphs
\* above, any mines, up to MaxUnknowns cells with hidden content and up to
\* MaxHints nested prefix regions as hints, the largest first.  The parser
\* rejects HAS_MINE together with SECRET, and a pre-revealed cell is not a
\* mine: unknowns and revealed are drawn from the cells without mine.
Init ==
    /\ \/ \E n \in 0 .. MaxN :
          \E g \in Graphs(n), m \in SUBSET Cells(n) :
          \E u \in {x \in SUBSET (Cells(n) \ m) : Cardinality(x) <= MaxUnknowns},
             r \in SUBSET (Cells(n) \ m) :
          \E h \in HintLists(n, MaxHints), caps \in CapsChoices :
              solver \in Solver_new(Puzzle(n, g, m, u, r, h),
                                    caps.max_cells, caps.max_mines)
       \/ \E base \in Catalog, caps \in CapsChoices :
              solver \in Solver_new(base, caps.max_cells, caps.max_mines)
    /\ pc = IF solver.panicked THEN "panic" ELSE "idle"
    /\ result = NoResult
    /\ calls = 0
    /\ rounds = 0
    /\ injected = 0
    /\ engine = NoEngine
    /\ app = NoApp

\* step, when the solved set is not empty
Drain ==
    /\ UNCHANGED <<engine, app>>
    /\ pc = "idle"
    /\ solver.solved # {}
    /\ \E s \in step_drain(solver) :
          /\ solver' = s
          /\ rounds' = 0
          /\ IF s.panicked
             THEN pc' = "panic" /\ UNCHANGED <<result, calls, injected>>
             ELSE /\ pc' = "idle"
                  /\ calls' = calls + 1
                  /\ UNCHANGED injected
                  /\ result' = drain_result(solver, s)

InLoop == pc = "loop" \/ (pc = "idle" /\ solver.solved = {})

\* one pass of the loop of step that pops a tombstoned entry
PopRemoved ==
    /\ UNCHANGED <<engine, app>>
    /\ InLoop
    /\ nonempty_deques(solver) # {}
    /\ back(solver) \in solver.removed
    /\ solver' = [pop_back(solver) EXCEPT !.removed = @ \ {back(solver)}]
    /\ pc' = "loop"
    /\ rounds' = IF pc = "idle" THEN 0 ELSE rounds
    /\ UNCHANGED <<result, calls, injected>>

\* one pass of the loop of step that pops an entry and crosses it
PopCross ==
    /\ UNCHANGED <<engine, app>>
    /\ InLoop
    /\ nonempty_deques(solver) # {}
    /\ back(solver) \notin solver.removed
    /\ \E s \in add_all_crosses(pop_back(solver), back(solver)) :
          /\ solver' = s
          /\ rounds' = IF pc = "idle" THEN 0 ELSE rounds
          /\ IF s.panicked
             THEN pc' = "panic" /\ UNCHANGED <<result, calls, injected>>
             ELSE /\ pc' = "idle"
                  /\ calls' = calls + 1
                  /\ UNCHANGED injected
                  /\ result' = CrossConstraint(back(solver))

\* one pass of the loop of step that finds every deque empty
Replenish ==
    /\ UNCHANGED <<engine, app>>
    /\ InLoop
    /\ nonempty_deques(solver) = {}
    /\ solver' = step_replenish(solver)
    /\ pc' = IF solver'.panicked THEN "panic" ELSE "loop"
    /\ rounds' = min((IF pc = "idle" THEN 0 ELSE rounds) + 1, MaxRounds)
    /\ UNCHANGED <<result, calls, injected>>

Next == Drain \/ PopRemoved \/ PopCross \/ Replenish

Spec == Init /\ [][Next]_vars

\* the engine keeps calling step and the loop of step keeps running
FairSpec == Spec /\ WF_vars(Next)

\* ------------------------------------------------ constraints added by hand
\* every constraint add_constraint accepts on the cells not yet finalized
Injectable(s) ==
    UNION {{Constraint(bits, lo, hi, count_ones(bits)) :
               lo \in 0 .. count_ones(bits), hi \in 0 .. count_ones(bits)} :
           bits \in SUBSET (s.all_bits \ (s.revealed \cup s.flagged))}

\* a test builds the solver of a small puzzle without edges, hints and
\* pre-revealed cells
InitInject ==
    /\ \E n \in 0 .. MaxInjectCells :
       \E m \in SUBSET Cells(n) :
           solver \in Solver_new(Puzzle(n, NoEdges(n), m, {}, {}, <<>>),
                                 DefaultCaps.max_cells, DefaultCaps.max_mines)
    /\ pc = IF solver.panicked THEN "panic" ELSE "idle"
    /\ result = NoResult
    /\ calls = 0
    /\ rounds = 0
    /\ injected = 0
    /\ engine = NoEngine
    /\ app = NoApp

\* and adds constraints to it before the first call of step
Inject ==
    /\ UNCHANGED <<engine, app>>
    /\ pc = "idle"
    /\ calls = 0
    /\ injected < MaxInjected
    /\ \E c \in Injectable(solver) :
          /\ c.bits # {}
          /\ c.min_mines <= c.max_mines
          /\ solver' = add_constraint(solver, c)
    /\ pc' = IF solver'.panicked THEN "panic" ELSE "idle"
    /\ injected' = injected + 1
    /\ UNCHANGED <<result, calls, rounds>>

NextInject == Next \/ Inject

SpecInject == InitInject /\ [][NextInject]_vars

\* ------------------------------------------------------------ properties
AllBits == solver.all_bits
Mines == solver.base.mines
Returned == pc = "idle" /\ calls > 0

\* the loop of step is in a pass that finds every deque empty and whose
\* replenishing changes nothing: the next pass is the same, for ever
Spinning ==
    /\ pc = "loop"
    /\ nonempty_deques(solver) = {}
    /\ step_replenish(solver) = solver

\* a call of step returns in this transition
Returns == pc' = "idle" /\ calls' = calls + 1

\* every constraint the solver holds: by region, solved, or queued
Stored(s) ==
    s.unsolved \cup s.solved \cup
    UNION {{s.processing_stack[ij[1]][ij[2]][x] :
               x \in 1 .. Len(s.processing_stack[ij[1]][ij[2]])} :
           ij \in nonempty_deques(s)}

is_exact(c) == c.min_mines = c.max_mines


\* C1: after Solver::new and after every call of step, revealed and flagged
\* are disjoint, every flagged cell is a mine and no revealed cell is a mine.
C1_PuzzleStateSafe ==
    pc = "idle" =>
        /\ solver.revealed \cap solver.flagged = {}
        /\ solver.flagged \subseteq Mines
        /\ solver.revealed \cap Mines = {}

\* a step has revealed some cells and flagged others
C1_Witness ==
    /\ Returned
    /\ result.kind = "Progress"
    /\ result.revealed # {} /\ result.flagged # {}
    /\ solver.revealed # {} /\ solver.flagged # {}

\* C2: a drain step returns Finished exactly when the cells it leaves are all
\* revealed or flagged (otherwise it returns Progress), and whenever Finished
\* is returned flagged is the mine set and revealed is its complement.
C2_FinishedIffComplete ==
    Returned =>
        /\ result.kind = "Finished" =>
              /\ solver.revealed \cup solver.flagged = AllBits
              /\ solver.flagged = Mines
              /\ solver.revealed = AllBits \ Mines
        /\ result.kind = "Progress" =>
              solver.revealed \cup solver.flagged # AllBits

\* a step has returned Finished on a puzzle with mines and safe cells
C2_Witness ==
    /\ Returned
    /\ result.kind = "Finished"
    /\ solver.flagged # {} /\ solver.revealed # {}

\* C3: every call of step returns: the loop of step never comes to a pass
\* that finds every deque empty and whose replenishing changes nothing, a pass
\* that would repeat for ever.
C3_StepReturns == ~Spinning

\* the queue is empty, nothing is solved, the puzzle is unfinished and
\* replenishing enqueues nothing
Stalled ==
    /\ Spinning
    /\ solver.solved = {}
    /\ remaining(solver) > 0

\* C4: when the solved set is empty, the queue holds nothing, the puzzle is
\* unfinished and re-emitting the hints and neighborhoods enqueues nothing,
\* the next pass of step returns UnexpectedStop.
C4_StalledReturnsUnexpectedStop ==
    [][Stalled => Returns /\ result'.kind = "UnexpectedStop"]_vars

\* C5: a constraint whose tightened bounds have min > max is never stored:
\* while the solver runs, no constraint held by region, in the solved set or in
\* the work queue has min_mines > max_mines.
C5_ContradictionNeverStored ==
    pc # "panic" => \A c \in Stored(solver) : c.min_mines <= c.max_mines

\* C6: for a puzzle without cells the first call of step returns, and what it
\* returns is Finished.
C6_EmptyPuzzleFinished ==
    solver.base.n = 0 =>
        /\ pc # "panic"
        /\ calls = 0 => ~Spinning
        /\ calls = 1 => result = Finished

IsS1 == solver.base = Puzzle(3, NoEdges(3), {}, {}, {}, <<{0, 1, 2}>>)

\* C7: in scenario S1 the first call of step returns Progress with revealed
\* {0,1,2} and nothing flagged, and the second call returns Finished.
C7_S1ProgressThenFinished ==
    IsS1 =>
        /\ pc # "panic"
        /\ calls < 2 => ~Spinning
        /\ calls = 1 => result = Progress({0, 1, 2}, {})
        /\ calls = 2 => result = Finished

\* scenario S3: A = {0,1,2} = 1 and B = {0,1} = 1, cell 2 safe
IsS3 ==
    /\ solver.base.n = 3
    /\ solver.base.neighbors = NoEdges(3)
    /\ solver.base.hints = <<{0, 1, 2}, {0, 1}>>
    /\ solver.base.mines \in {{0}, {1}}
    /\ solver.base.unknowns = {}
    /\ solver.base.revealed = {}

\* live exact constraints A and B with B.bits a proper subset of A.bits
Nested(s, A, B) ==
    /\ A \in s.unsolved /\ B \in s.unsolved
    /\ is_exact(A) /\ is_exact(B)
    /\ B.bits \subseteq A.bits /\ B.bits # A.bits

\* the exact constraint on A.bits \ B.bits with A.min - B.min mines
Difference(A, B) ==
    Constraint(A.bits \ B.bits, A.min_mines - B.min_mines,
               A.min_mines - B.min_mines, count_ones(A.bits \ B.bits))

\* the Cross step of this transition processes c against k
Crosses(c, k) ==
    /\ Returns
    /\ result' = CrossConstraint(c)
    /\ c \in solver.unsolved /\ k \in solver.unsolved

\* C8 as stated: whenever two live exact constraints are nested, the Cross step
\* that processes one of them leaves the exact difference constraint in the
\* store; in S3 the first step is that Cross, it solves {2} = 0, and the
\* second step reveals cell 2.
C8_SubsetSubtraction ==
    [][/\ \A A, B \in solver.unsolved :
              Nested(solver, A, B) /\ (Crosses(A, B) \/ Crosses(B, A))
                  => Difference(A, B) \in solver'.unsolved \cup solver'.solved
       /\ IsS3 /\ Returns /\ calls = 0 =>
              /\ result'.kind = "CrossConstraint"
              /\ Constraint({2}, 0, 0, 1) \in solver'.solved
       /\ IsS3 /\ Returns /\ calls = 1 => result' = Progress({2}, {})]_vars

\* C8, amended: the same, provided the size gate does not skip the constraint
\* the processed one is crossed with.
C8_SubsetSubtractionUngated ==
    [][/\ \A A, B \in solver.unsolved :
              /\ Nested(solver, A, B)
              /\ \/ Crosses(A, B) /\ ~gated(solver, B)
                 \/ Crosses(B, A) /\ ~gated(solver, A)
              => Difference(A, B) \in solver'.unsolved \cup solver'.solved
       /\ IsS3 /\ Returns /\ calls = 0 /\ ~gated(solver, Constraint({0, 1}, 1, 1, 2)) =>
              /\ result'.kind = "CrossConstraint"
              /\ Constraint({2}, 0, 0, 1) \in solver'.solved
       /\ IsS3 /\ Returns /\ calls = 1 /\ ~gated(solver, Constraint({0, 1}, 1, 1, 2)) =>
              result' = Progress({2}, {})]_vars

\* in S3 the Cross step has solved {2} = 0 and the next step has revealed 2
C8_Witness ==
    /\ IsS3
    /\ Returned /\ calls = 2
    /\ result = Progress({2}, {})
    /\ solver.revealed = {2}
    /\ solver.max_cells = DefaultMaxCells

\* C9: every constraint for which step returns CrossConstraint is, when it is
\* passed to add_all_crosses, the live constraint stored for its region: an
\* entry of the queue whose constraint was removed from the store is skipped.
C9_CrossedIsLive ==
    [][Returns /\ result'.kind = "CrossConstraint"
          => result'.constraint \in solver.unsolved]_vars

\* C10: with the caps of scenario S5, a puzzle that the solver finishes when
\* nothing is gated is not left unfinished: no call of step panics or spins
\* while cells remain.
C10_S5ReachesFinished ==
    (/\ solver.max_cells = S5Caps.max_cells
     /\ solver.max_mines = S5Caps.max_mines
     /\ remaining(solver) > 0
     /\ pc = "panic" \/ Spinning)
        => ~UngatedFinishes(solver.base)

\* a run of repeated step calls has ended: the call in progress never returns
\* or the engine thread has panicked
Ended == Spinning \/ pc = "panic"

\* what a run that ended in s leaves: the masks and the terminal kind
Outcome(s) ==
    <<s.revealed, s.flagged,
      IF s.panicked THEN "panic"
      ELSE IF remaining(s) = 0 /\ count_ones(s.base.revealed) < s.base.n
      THEN "Finished"
      ELSE "stop">>

\* the outcomes of the runs of repeated step from s, over every iteration
\* order of the hash sets
RECURSIVE final_outcomes(_)
final_outcomes(s) ==
    UNION {IF o[2].kind = "None" THEN {Outcome(o[1])}
           ELSE final_outcomes(o[1]) : o \in step(s)}

\* the same, from construction
RunOutcomes(base, max_cells, max_mines) ==
    UNION {IF s.panicked THEN {Outcome(s)} ELSE final_outcomes(s) :
              s \in Solver_new(base, max_cells, max_mines)}

\* the run ends here: the engine thread panics, or the first replenish pass of
\* a call has changed nothing (the later passes repeat it)
JustEnded == pc = "panic" \/ (Spinning /\ rounds = 1)

\* C11: the outcome of a run does not depend on the iteration order of the
\* hash sets: when a run ends, its revealed and flagged masks and its terminal
\* kind are the only outcome that any run of the same puzzle with the same
\* caps can end with.  (A call that finds the deques empty after a replenish
\* pass spins from that pass on, so every ended run has passed JustEnded.)
C11_OutcomeOrderIndependent ==
    /\ JustEnded =>
          RunOutcomes(solver.base, solver.max_cells, solver.max_mines)
              = {Outcome(solver)}
    /\ pc = "loop" /\ nonempty_deques(solver) = {} /\ rounds >= 1 => Spinning

\* a run has ended whose last step exists only in some iteration orders
C11_Witness ==
    /\ JustEnded
    /\ solver.base = StarPuzzle
    /\ solver.max_cells = DefaultMaxCells
    /\ result = CrossConstraint(Constraint({0, 1}, 0, 1, 2))

\* C12: after every step, every constraint of the unsolved map has a region
\* disjoint from the revealed and flagged cells, bounds with
\* 0 <= min <= max <= size, a size equal to the number of its cells, and is not
\* useless.
C12_UnsolvedWellFormed ==
    Returned =>
        \A c \in solver.unsolved :
            /\ c.bits \cap (solver.revealed \cup solver.flagged) = {}
            /\ 0 <= c.min_mines
            /\ c.min_mines <= c.max_mines
            /\ c.max_mines <= c.size
            /\ c.size = count_ones(c.bits)
            /\ ~(c.min_mines = 0 /\ c.max_mines = c.size)

\* a step that revealed and flagged cells has left shrunken constraints
C12_Witness ==
    /\ Returned
    /\ result.kind = "Progress"
    /\ result.revealed # {} /\ result.flagged # {}
    /\ solver.unsolved # {}

\* C13: after every step, c is in square_constraints[i] exactly when i is a
\* cell of c and c is stored, as the entry of the unsolved map for its region
\* or as a member of the solved set.
C13_ReverseIndexConsistent ==
    Returned =>
        \A i \in Cells(solver.base.n) :
            solver.square_constraints[i] =
                {c \in solver.unsolved \cup solver.solved : i \in c.bits}

\* a step has removed constraints from the index and has left others in it
C13_Witness ==
    /\ Returned
    /\ solver.removed # {}
    /\ \E i \in Cells(solver.base.n) : solver.square_constraints[i] # {}
    /\ \E i \in Cells(solver.base.n) : solver.square_constraints[i] = {}

\* the constraints held by region, in the solved set and in the index
Indexed(s) ==
    s.unsolved \cup s.solved
        \cup UNION {s.square_constraints[i] : i \in Cells(s.base.n)}

\* C14: after every step, no two distinct constraints held in the unsolved
\* map, in the solved set or in the square_constraints index have the same
\* region.
C14_OneConstraintPerRegion ==
    Returned =>
        \A c, k \in Indexed(solver) : c.bits = k.bits => c = k

\* every entry of every deque of the work queue
Queued(s) ==
    UNION {{s.processing_stack[ij[1]][ij[2]][x] :
               x \in 1 .. Len(s.processing_stack[ij[1]][ij[2]])} :
           ij \in nonempty_deques(s)}

\* C15: after every step, every member of the solved set has max == 0 or
\* min == size, no member of the solved set is held in the unsolved map, and
\* no entry of the work queue has max == 0 or min == size.
C15_SolvedApart ==
    Returned =>
        /\ \A c \in solver.solved : c.max_mines = 0 \/ c.min_mines = c.size
        /\ solver.solved \cap solver.unsolved = {}
        /\ \A c \in Queued(solver) :
              ~(c.max_mines = 0 \/ c.min_mines = c.size)

\* a step has left solved constraints of both kinds beside queued ones
C15_Witness ==
    /\ Returned
    /\ \E c \in solver.solved : c.max_mines = 0
    /\ \E c \in solver.solved : c.min_mines = c.size
    /\ Queued(solver) # {}

\* this transition is the call add_constraint(c) on the solver
Adds(c) ==
    /\ injected' = injected + 1
    /\ c.bits # {}
    /\ c.min_mines <= c.max_mines
    /\ solver' = add_constraint(solver, c)

\* the store: unsolved map, solved set, index, work queue and tombstones
Store(s) ==
    <<s.unsolved, s.solved, s.square_constraints, s.processing_stack, s.removed>>

\* C16: add_constraint is idempotent: after add_constraint(c), a second
\* add_constraint(c) leaves the unsolved map, the solved set, the index, the
\* work queue and the tombstone set as they are.
C16_AddIdempotent ==
    [][\A c \in Injectable(solver) :
           Adds(c) /\ ~solver'.panicked
               => Store(add_constraint(solver', c)) = Store(solver')]_vars

\* C17: adding a weaker constraint is a no-op: when k is stored, in the
\* unsolved map or in the solved set, and c has the region of k with
\* c.min <= k.min and c.max >= k.max, add_constraint(c) leaves the unsolved map,
\* the solved set, the index and the work queue as they are.
C17_WeakerIsNoOp ==
    [][\A c \in Injectable(solver) :
           /\ Adds(c)
           /\ \E k \in solver.unsolved \cup solver.solved :
                 /\ k.bits = c.bits
                 /\ c.min_mines <= k.min_mines
                 /\ c.max_mines >= k.max_mines
           => /\ solver'.unsolved = solver.unsolved
              /\ solver'.solved = solver.solved
              /\ solver'.square_constraints = solver.square_constraints
              /\ solver'.processing_stack = solver.processing_stack]_vars

\* ------------------------------------------------ cross_constraints alone
\* every constraint on the cells 0 .. n-1 with 0 <= min <= max <= size
Constraints(n) ==
    UNION {{c \in {Constraint(bits, lo, hi, count_ones(bits)) :
                      lo \in 0 .. count_ones(bits),
                      hi \in 0 .. count_ones(bits)} :
               c.min_mines <= c.max_mines} :
           bits \in SUBSET Cells(n)}

\* A test of the free function cross_constraints, which reads no Solver: here
\* `solver` holds the two arguments and `result` what the calls return.
InitCross ==
    /\ solver \in {[left |-> l, right |-> r] :
                      l \in Constraints(MaxCrossCells),
                      r \in Constraints(MaxCrossCells)}
    /\ pc = "idle"
    /\ result = NoResult
    /\ calls = 0
    /\ rounds = 0
    /\ injected = 0
    /\ engine = NoEngine
    /\ app = NoApp

\* the test calls cross_constraints on the arguments in both orders
Cross ==
    /\ UNCHANGED <<engine, app>>
    /\ calls = 0
    /\ result' = [kind |-> "Crossed",
                  constraints |-> cross_constraints(solver.left, solver.right),
                  swapped |-> cross_constraints(solver.right, solver.left)]
    /\ calls' = 1
    /\ UNCHANGED <<solver, pc, rounds, injected>>

NextCross == Cross

SpecCross == InitCross /\ [][NextCross]_vars

Range(f) == {f[x] : x \in DOMAIN f}

\* C18: crossing is symmetric: for constraints with intersecting regions,
\* cross_constraints(L, R) and cross_constraints(R, L) return the same
\* constraints, in some order.
C18_CrossSymmetric ==
    result.kind = "Crossed" /\ solver.left.bits \cap solver.right.bits # {}
        => Range(result.constraints) = Range(result.swapped)

\* two overlapping constraints, neither inside the other, have been crossed
\* and the two calls return their three constraints in different orders
C18_Witness ==
    /\ result.kind = "Crossed"
    /\ solver.left.bits \cap solver.right.bits # {}
    /\ solver.left.bits \ solver.right.bits # {}
    /\ solver.right.bits \ solver.left.bits # {}
    /\ Len(result.constraints) = 3
    /\ result.constraints # result.swapped

\* C19: for two stored constraints L and R with disjoint regions,
\* cross_constraints(L, R) returns the empty useless constraint, L and R, and
\* adding what it returns leaves the store as it is.
C19_DisjointCrossIsNoOp ==
    Returned =>
        \A L, R \in solver.unsolved \cup solver.solved :
            L.bits \cap R.bits = {} =>
                /\ cross_constraints(L, R) = <<Constraint({}, 0, 0, 0), L, R>>
                /\ Store(add_each(solver, cross_constraints(L, R)))
                       = Store(solver)

\* the priority key of c is not larger than that of e: smaller size, or the
\* same size and not more slack
KeyLeq(c, e) ==
    \/ c.size < e.size
    \/ /\ c.size = e.size
       /\ c.max_mines - c.min_mines <= e.max_mines - e.min_mines

\* C20: the constraint a Cross step processes has a minimal priority key
\* among the entries of the work queue that are not tombstoned when it is
\* popped: none of them has a smaller size, or the same size and less slack.
C20_CrossPopsMinimalKey ==
    [][Returns /\ result'.kind = "CrossConstraint"
          => /\ result'.constraint \in Queued(solver) \ solver.removed
             /\ \A e \in Queued(solver) \ solver.removed :
                   KeyLeq(result'.constraint, e)]_vars

\* a Cross step has processed a constraint while a constraint on a larger
\* region around it waits in the queue
C20_Witness ==
    /\ Returned
    /\ result.kind = "CrossConstraint"
    /\ \E e \in Queued(solver) \ solver.removed :
          /\ result.constraint.bits \subseteq e.bits
          /\ result.constraint.bits # e.bits
          /\ e \in solver.unsolved

\* the deque the next pop takes its entry from
front_deque(s) ==
    LET ij == first_deque(s)
    IN  s.processing_stack[ij[1]][ij[2]]

\* an entry of the work queue that is still in the unsolved map and has no
\* tombstone
Live(s, e) == e \in s.unsolved /\ e \notin s.removed

\* C21: within one (size, slack) bucket the work queue is first in, first
\* out: when a Cross step pops and crosses a live constraint, no other live
\* constraint of the same bucket was enqueued before it.
C21_BucketFifo ==
    [][Returns /\ result'.kind = "CrossConstraint"
          => \A x \in 1 .. Len(front_deque(solver)) - 1 :
                LET e == front_deque(solver)[x]
                IN  Live(solver, e) /\ Live(solver, result'.constraint)
                        => e = result'.constraint]_vars

\* Solver::new has returned and step has not been called yet
AfterNew == pc = "idle" /\ calls = 0

\* the exact constraint of a hint region once the pre-revealed cells are
\* taken out of it
hint_constraint(s, hint) ==
    LET bits == hint \ s.base.revealed
        mines == count_ones(bits \cap s.base.mines)
    IN  Constraint(bits, mines, mines, count_ones(bits))

\* C22: when Solver::new returns, for every hint region of the puzzle the
\* unsolved map or the solved set holds the exact constraint on the region
\* minus the pre-revealed cells, unless that constraint is useless.
C22_HintsSeededAtInit ==
    AfterNew =>
        \A i \in DOMAIN solver.base.hints :
            LET c == hint_constraint(solver, solver.base.hints[i])
            IN  is_useless(c) \/ c \in solver.unsolved \cup solver.solved

\* the regions whose ground-truth mine count may become a constraint: the
\* hints and the neighborhoods of the revealed cells that show their count
mine_count_sources(s) ==
    {s.base.hints[i] : i \in DOMAIN s.base.hints}
        \cup {s.base.neighbors[c] : c \in s.revealed \ s.base.unknowns}

\* this transition is the replenish branch of the loop of step
Replenishes == InLoop /\ nonempty_deques(solver) = {} /\ solver' # solver

\* C23: ground-truth mine counts enter the store only through hint regions
\* and the neighborhoods of cells that are revealed and not in unknowns:
\* every constraint a replenish pass puts into the unsolved map or the
\* solved set is on such a region less the revealed and the flagged cells.
C23_MineCountsFromSeenRegions ==
    [][Replenishes =>
          \A c \in (solver'.unsolved \cup solver'.solved)
                      \ (solver.unsolved \cup solver.solved) :
              \E region \in mine_count_sources(solver) :
                  c.bits = (region \ solver.revealed) \ solver.flagged]_vars

\* ------------------------------------------------------- the engine thread
\* commands the GUI may have in flight at once
MaxChannel == 2

\* a path of three cells with a mine at one end and a hint over two cells
LinePuzzle == Puzzle(3, PathGraph(3), {0}, {}, {}, <<{0, 1}>>)

\* the puzzles read_all_puzzles lists
Listing == {LinePuzzle, GatePuzzle}

Run == [kind |-> "Run"]
Step == [kind |-> "Step"]
Stop == [kind |-> "Stop"]
Load(listing) == [kind |-> "Load", listing |-> listing]
Commands == {Run, Step, Stop} \cup {Load(p) : p \in Listing}

\* `solver` while it is None
NoSolver == [kind |-> "None"]

\* the receive at the top of the loop can return: recv blocks on an empty
\* channel, try_recv does not
can_receive(e) == e.running \/ e.channel # <<>>

\* the command the receive returns
next_command(e) ==
    IF e.channel # <<>> THEN Head(e.channel) ELSE Run

\* `running` that survives every response
running_after_any_response(running, response) == running

\* `running` after the match on the response of step
running_after(running, response) ==
    IF response.kind \in {"Finished", "UnexpectedStop"} THEN FALSE ELSE running

\* updates the engine may have in flight to the GUI at once
MaxUpdates == 2

\* the clone of the PuzzleState a solver holds
puzzle_clone(s) ==
    [base |-> s.base, revealed |-> s.revealed, flagged |-> s.flagged]

\* the variants of Update; the PuzzleGui of NewPuzzle is layout only
UpdatePuzzleListing(listing) == [kind |-> "PuzzleListing", listing |-> listing]
UpdateNewPuzzle(state) == [kind |-> "NewPuzzle", state |-> state]
UpdateStep(state, response) ==
    [kind |-> "Step", state |-> state, result |-> response]

\* `puzzle` of the TemplateApp while it is None
NoDisplay == [kind |-> "None"]

\* TemplateApp::default, with the update channel as the engine leaves it
\* before its loop
TemplateApp ==
    [recieve |-> <<UpdatePuzzleListing(Listing)>>, listing |-> {},
     puzzle |-> NoDisplay, step |-> 0, display_puzzle |-> FALSE,
     panicked |-> FALSE]

\* handle_update with a NewPuzzle arm that keeps the steps of the display
\* it replaces
handle_update_keeps_steps(a, update) ==
    CASE update.kind = "NewPuzzle" ->
            [a EXCEPT !.puzzle = [kind |-> "Some",
                                  starting_state |-> update.state,
                                  steps |-> IF a.puzzle = NoDisplay
                                            THEN <<>>
                                            ELSE a.puzzle.steps],
                      !.step = 0,
                      !.display_puzzle = TRUE]
      [] update.kind = "PuzzleListing" ->
            [a EXCEPT !.listing = update.listing]
      [] update.kind = "Step" ->
            IF a.puzzle = NoDisplay
            THEN [a EXCEPT !.panicked = TRUE]
            ELSE [a EXCEPT !.step = IF @ = Len(a.puzzle.steps)
                                    THEN @ + 1 ELSE @,
                           !.puzzle.steps =
                               Append(@, <<update.state, update.result>>)]

\* the match of recieve_updates on one update
handle_update(a, update) ==
    CASE update.kind = "NewPuzzle" ->
            [a EXCEPT !.puzzle = [kind |-> "Some",
                                  starting_state |-> update.state,
                                  steps |-> <<>>],
                      !.step = 0,
                      !.display_puzzle = TRUE]
      [] update.kind = "PuzzleListing" ->
            [a EXCEPT !.listing = update.listing]
      [] update.kind = "Step" ->
            IF a.puzzle = NoDisplay
            THEN [a EXCEPT !.panicked = TRUE]
            ELSE [a EXCEPT !.step = IF @ = Len(a.puzzle.steps)
                                    THEN @ + 1 ELSE @,
                           !.puzzle.steps =
                               Append(@, <<update.state, update.result>>)]

\* recieve_updates: every update try_recv returns is handled, in order
RECURSIVE recieve_updates(_)
recieve_updates(a) ==
    IF a.panicked \/ a.recieve = <<>>
    THEN a
    ELSE recieve_updates(handle_update([a EXCEPT !.recieve = Tail(@)],
                                       Head(a.recieve)))

\* the engine sends an update
send(a, update) == [a EXCEPT !.recieve = Append(@, update)]

\* start_engine up to the loop: the listing is sent, no solver, not running
InitEngine ==
    /\ solver = NoSolver
    /\ pc = "idle"
    /\ result = NoResult
    /\ calls = 0
    /\ rounds = 0
    /\ injected = 0
    /\ engine = [at |-> "recv", running |-> FALSE, command |-> Stop,
                 channel |-> <<>>, updates |-> 0]
    /\ app = TemplateApp

\* the GUI sends a command
Send ==
    /\ Len(engine.channel) < MaxChannel
    /\ \E command \in Commands :
          engine' = [engine EXCEPT !.channel = Append(@, command)]
    /\ UNCHANGED <<solver, pc, result, calls, rounds, injected, app>>

\* one iteration of the loop up to the call of step: a command is taken,
\* `running` is set from it, and Load builds the solver
Receive ==
    /\ engine.at = "recv"
    /\ pc # "panic"
    /\ can_receive(engine)
    /\ next_command(engine).kind = "Load" => Len(app.recieve) < MaxUpdates
    /\ LET command == next_command(engine)
           e == [engine EXCEPT !.command = command,
                               !.running = (command = Run),
                               !.channel = IF @ = <<>> THEN @ ELSE Tail(@)]
       IN  IF command.kind = "Load"
           THEN /\ solver' \in Solver_new(command.listing, DefaultMaxCells,
                                          DefaultMaxMines)
                /\ pc' = IF solver'.panicked THEN "panic" ELSE "idle"
                /\ result' = NoResult
                /\ calls' = 0
                /\ rounds' = 0
                /\ engine' = [e EXCEPT !.updates = 0]
                /\ app' = IF solver'.panicked
                          THEN app
                          ELSE send(app, UpdateNewPuzzle(puzzle_clone(solver')))
                /\ UNCHANGED injected
           ELSE /\ engine' = IF command.kind \in {"Run", "Step"}
                                  /\ solver # NoSolver
                             THEN [e EXCEPT !.at = "step"]
                             ELSE e
                /\ UNCHANGED <<solver, pc, result, calls, rounds, injected,
                               app>>

\* the call of step, one pass of its body at a time
StepPass ==
    /\ engine.at = "step"
    /\ calls = engine.updates
    /\ Next

\* step has returned: `running` is cleared on Finished and the Step update
\* is sent
SendUpdate ==
    /\ engine.at = "step"
    /\ pc = "idle"
    /\ calls = engine.updates + 1
    /\ Len(app.recieve) < MaxUpdates
    /\ app' = send(app, UpdateStep(puzzle_clone(solver), result))
    /\ engine' = [engine EXCEPT !.at = "recv",
                                !.running = running_after(@, result),
                                !.updates = @ + 1]
    /\ UNCHANGED <<solver, pc, result, calls, rounds, injected>>

\* the GUI thread runs recieve_updates on a frame with updates waiting
RecieveUpdates ==
    /\ ~app.panicked
    /\ app.recieve # <<>>
    /\ app' = recieve_updates(app)
    /\ UNCHANGED <<solver, pc, result, calls, rounds, injected, engine>>

NextEngine == Send \/ Receive \/ StepPass \/ SendUpdate \/ RecieveUpdates

SpecEngine == InitEngine /\ [][NextEngine]_vars

\* the candidates the size gate is tried on
MaxGateSize == 10

\* C24: the solver the engine builds on Load has the documented default
\* caps: its size gate skips a candidate exactly when the candidate's
\* max_mines is above 3 and its size is above 9.
C24_DriverUsesDocumentedCaps ==
    solver # NoSolver =>
        \A size \in 0 .. MaxGateSize :
            \A max_mines \in 0 .. size :
                gated(solver, [size |-> size, max_mines |-> max_mines])
                    <=> (max_mines > 3 /\ size > 9)

\* this transition takes a command at the top of the engine loop
Receives ==
    /\ engine.at = "recv"
    /\ \/ Len(engine'.channel) < Len(engine.channel)
       \/ engine'.at = "step"

\* this transition enters a call of step
Calls == engine.at = "recv" /\ engine'.at = "step"

\* this transition handles the response of a call of step
Responds == engine.at = "step" /\ engine'.at = "recv"

\* C25: the run loop of the engine.  While running with a solver and no
\* command waiting, the next thing the engine does is call step; a call of
\* step is entered only for a Run or Step command taken from the channel or,
\* with the channel empty, for the Run the running engine assumes; every
\* call that returns sends exactly one Step update; and `running` is off
\* after a Finished or UnexpectedStop response and after a Step, Stop or Load
\* command is taken, so that no further step follows without a new Run or
\* Step command.
C25_RunLoop ==
    [][/\ (engine.at = "recv" /\ engine.running /\ solver # NoSolver
              /\ engine.channel = <<>> /\ engine'.channel = <<>>
              /\ engine' # engine)
          => (Calls /\ engine'.command = Run /\ engine'.running)
       /\ Calls =>
             /\ solver # NoSolver
             /\ engine'.command \in {Run, Step}
             /\ IF engine.channel = <<>>
                THEN engine.running /\ engine'.command = Run
                ELSE engine'.command = Head(engine.channel)
       /\ Responds =>
             /\ engine'.updates = engine.updates + 1
             /\ engine'.updates = calls
             /\ result.kind \in {"Finished", "UnexpectedStop"}
                   => ~engine'.running
             /\ result.kind \notin {"Finished", "UnexpectedStop"}
                   => engine'.running = (engine.command = Run)
       /\ (Receives /\ engine'.command.kind \in {"Step", "Stop", "Load"})
             => ~engine'.running
       /\ (engine.at = "step" /\ engine'.at = "step")
             => engine'.updates = engine.updates]_vars

\* the engine, set running by a Run command, has called step several times
\* and has stopped running on the Finished response of the last call
C25_Witness ==
    /\ engine.at = "recv"
    /\ engine.command = Run
    /\ ~engine.running
    /\ engine.updates >= 2
    /\ result.kind = "Finished"

\* the mine assignment M is within the bounds of the constraint c
Satisfies(M, c) ==
    /\ c.min_mines <= count_ones(c.bits \cap M)
    /\ count_ones(c.bits \cap M) <= c.max_mines

\* the derivation rule written with integer arithmetic: the intersection,
\* then the part of L outside R and the part of R outside L, if not empty
Derived(L, R) ==
    LET I == L.bits \cap R.bits
        c == count_ones(I)
        Imin == max(max(L.min_mines + c - L.size, R.min_mines + c - R.size), 0)
        Imax == min(min(c, L.max_mines), R.max_mines)
        Only(A, B) ==
            Constraint(A.bits \ B.bits,
                       max(A.min_mines - Imax, 0),
                       min(A.max_mines - Imin, A.size - c),
                       count_ones(A.bits \ B.bits))
    IN  {Constraint(I, Imin, Imax, c)}
            \cup (IF L.bits \ R.bits # {} THEN {Only(L, R)} ELSE {})
            \cup (IF R.bits \ L.bits # {} THEN {Only(R, L)} ELSE {})

\* C26: crossing is sound.  For valid constraints L and R on intersecting
\* regions and every mine assignment within the bounds of both, every
\* constraint d that cross_constraints(L, R) returns has
\* d.min <= mines of M in d.bits <= d.max <= d.size, and the constraints
\* returned are those of the derivation rule for the intersection and the
\* two differences.
C26_CrossingSound ==
    (result.kind = "Crossed" /\ solver.left.bits \cap solver.right.bits # {})
        => \A M \in SUBSET Cells(MaxCrossCells) :
              (Satisfies(M, solver.left) /\ Satisfies(M, solver.right))
                  => /\ \A d \in Range(result.constraints) :
                           /\ Satisfies(M, d)
                           /\ d.max_mines <= d.size
                     /\ Range(result.constraints)
                            = Derived(solver.left, solver.right)

\* two unsolved constraints on intersecting regions have been crossed, some
\* mine assignment is within the bounds of both, and the crossing has
\* settled the cells of one part
C26_Witness ==
    /\ result.kind = "Crossed"
    /\ solver.left.bits \ solver.right.bits # {}
    /\ solver.left.bits \cap solver.right.bits # {}
    /\ \E M \in SUBSET Cells(MaxCrossCells) :
          Satisfies(M, solver.left) /\ Satisfies(M, solver.right)
    /\ ~is_solved(solver.left)
    /\ ~is_solved(solver.right)
    /\ \E d \in Range(result.constraints) : is_solved(d) /\ d.size > 0

\* the ground-truth mines of the puzzle are within the bounds of c
Sound(s, c) == Satisfies(s.base.mines, c)

\* C27: ground-truth soundness of the store: in every reachable state of a
\* well-formed puzzle, every constraint in the unsolved map, in the solved
\* set and in the square_constraints index has
\* min <= ground-truth mines in its bits <= max.
C27_StoreSound ==
    \A c \in Indexed(solver) : Sound(solver, c)

\* the store holds a constraint derived by crossing, with room between its
\* bounds, next to a solved one
C27_Witness ==
    /\ Returned
    /\ result.kind = "CrossConstraint"
    /\ \E c \in solver.unsolved : c.min_mines < c.max_mines
    /\ \E c \in solver.solved : c.size > 0

\* C28: for a well-formed puzzle no sequence of Solver::new and calls of
\* step reaches a fatal assertion or a panic: add_constraint is never called
\* on a region with a revealed or flagged cell or with max above size,
\* remove_constraint always finds its constraint, reveal_square is never
\* called on a mine or a revealed cell, flag_square never on a safe cell, a
\* flagged cell or a cell of a constraint with max = 0.
C28_NoPanic ==
    pc # "panic" /\ ~solver.panicked

\* a step has revealed and flagged cells, shrinking the constraints around
\* them, and has left constraints in the unsolved map
C28_Witness ==
    /\ Returned
    /\ result.kind = "Progress"
    /\ result.revealed # {}
    /\ result.flagged # {}
    /\ solver.unsolved # {}

\* the cells the first branch of step reveals and flags
to_reveal(s) == UNION {c.bits : c \in {k \in s.solved : k.max_mines = 0}}
to_flag(s) == UNION {c.bits : c \in {k \in s.solved : k.max_mines # 0}}

\* the calls <<solver, square>> of reveal_square that the first branch of
\* step makes, from `states` on, for `squares` in ascending order
RECURSIVE reveal_calls(_, _)
reveal_calls(states, squares) ==
    IF squares = {} THEN {}
    ELSE LET square == first_one(squares)
         IN  {<<s, square>> : s \in states}
                 \cup reveal_calls(UNION {reveal_square(s, square) : s \in states},
                                   squares \ {square})

\* the calls <<solver, square>> of flag_square, likewise
RECURSIVE flag_calls(_, _)
flag_calls(states, squares) ==
    IF squares = {} THEN {}
    ELSE LET square == first_one(squares)
         IN  {<<s, square>> : s \in states}
                 \cup flag_calls(UNION {flag_square(s, square) : s \in states},
                                 squares \ {square})

\* a call of step is about to take its first branch
Draining == pc = "idle" /\ solver.solved # {} /\ ~solver.panicked

\* the store of t holds c or a constraint on the region of c that is at least
\* as tight: what add_constraint(c) leaves behind unless c is useless
Covered(t, c) ==
    \/ is_useless(c)
    \/ \E k \in t.unsolved \cup t.solved :
          /\ k.bits = c.bits
          /\ k.min_mines >= c.min_mines
          /\ k.max_mines <= c.max_mines

\* C29: reveal_square(cell).  Every constraint q that contained cell is
\* removed and added again as q' with the bits of q without cell,
\* size = q.size - 1, the same min and max = min(q.max, q'.size); afterwards
\* cell is in revealed, no stored constraint contains cell, and the neighbor
\* constraint of cell is added if and only if cell is not in unknowns.
C29_RevealSquare ==
    Draining =>
        \A call \in reveal_calls({solver}, to_reveal(solver)) :
            LET s == call[1]
                cell == call[2]
                loop == reveal_each(s, cell, s.square_constraints[cell])
            IN  /\ \A t \in reveal_square(s, cell) :
                      /\ ~t.panicked
                      /\ cell \in t.revealed
                      /\ t.flagged = s.flagged
                      /\ \A c \in Indexed(t) : cell \notin c.bits
                      /\ \A q \in s.square_constraints[cell] :
                            /\ q \notin Indexed(t)
                            /\ Covered(t, Constraint(q.bits \ {cell}, q.min_mines,
                                                     min(q.max_mines, q.size - 1),
                                                     q.size - 1))
                      /\ cell \notin s.base.unknowns
                            => Covered(t, get_neighbor_constraint(t, cell))
                /\ cell \in s.base.unknowns
                      => reveal_square(s, cell)
                             = {[s1 EXCEPT !.revealed = @ \cup {cell}] :
                                   s1 \in loop}
                /\ cell \notin s.base.unknowns
                      => reveal_square(s, cell)
                             = {LET s2 == [s1 EXCEPT !.revealed = @ \cup {cell}]
                                IN  add_constraint(
                                        s2, get_neighbor_constraint(s2, cell)) :
                                   s1 \in loop}

\* a call of step that follows a Cross step is about to reveal a cell of an
\* unsolved constraint whose max_mines equals its size: the cut applies
C29_Witness ==
    /\ Draining
    /\ calls > 0
    /\ \E call \in reveal_calls({solver}, to_reveal(solver)) :
          \E q \in call[1].square_constraints[call[2]] :
              /\ q \in call[1].unsolved
              /\ q.max_mines = q.size
              /\ q.size >= 2

\* C30: flag_square(cell).  Every constraint q that contained cell is removed
\* and added again as q' with the bits of q without cell, size = q.size - 1,
\* max = q.max - 1 and min = max(q.min - 1, 0); afterwards cell is in
\* flagged, no stored constraint contains cell, and no neighbor constraint
\* is added.
C30_FlagSquare ==
    Draining =>
        \A call \in flag_calls(reveal_all({solver}, to_reveal(solver)),
                               to_flag(solver)) :
            LET s == call[1]
                cell == call[2]
                loop == flag_each(s, cell, s.square_constraints[cell])
            IN  /\ \A t \in flag_square(s, cell) :
                      /\ ~t.panicked
                      /\ cell \in t.flagged
                      /\ t.revealed = s.revealed
                      /\ \A c \in Indexed(t) : cell \notin c.bits
                      /\ \A q \in s.square_constraints[cell] :
                            /\ q \notin Indexed(t)
                            /\ Covered(t, Constraint(q.bits \ {cell},
                                                     max(q.min_mines - 1, 0),
                                                     q.max_mines - 1,
                                                     q.size - 1))
                /\ flag_square(s, cell)
                       = {[s1 EXCEPT !.flagged = @ \cup {cell}] : s1 \in loop}

\* a call of step that follows a Cross step is about to flag a cell of an
\* unsolved constraint on more cells whose min_mines is 0: the subtraction
\* saturates
C30_Witness ==
    /\ Draining
    /\ calls > 0
    /\ \E call \in flag_calls(reveal_all({solver}, to_reveal(solver)),
                              to_flag(solver)) :
          \E q \in call[1].square_constraints[call[2]] :
              /\ q \in call[1].unsolved
              /\ q.min_mines = 0
              /\ q.size >= 2

\* C31: the revealed and flagged masks only grow and change only in drain
\* steps.  A step that returns CrossConstraint leaves both unchanged; a step
\* that returns Progress{r, f} sets revealed to the old revealed with r and
\* flagged to the old flagged with f, where r and f are disjoint from each
\* other and from the cells finalized before, and not both empty; no pass of
\* the loop of step changes either mask.
C31_MasksGrowInDrainOnly ==
    [][/\ solver.revealed \subseteq solver'.revealed
       /\ solver.flagged \subseteq solver'.flagged
       /\ (Returns /\ result'.kind = "CrossConstraint")
             => /\ solver'.revealed = solver.revealed
                /\ solver'.flagged = solver.flagged
       /\ (Returns /\ result'.kind = "Progress")
             => /\ solver'.revealed = solver.revealed \cup result'.revealed
                /\ solver'.flagged = solver.flagged \cup result'.flagged
                /\ result'.revealed \cap result'.flagged = {}
                /\ result'.revealed \cap (solver.revealed \cup solver.flagged) = {}
                /\ result'.flagged \cap (solver.revealed \cup solver.flagged) = {}
                /\ result'.revealed \cup result'.flagged # {}
       /\ (solver'.revealed # solver.revealed \/ solver'.flagged # solver.flagged)
             => /\ Returns
                /\ result'.kind \in {"Progress", "Finished"}]_vars

\* a Progress step that follows a Cross step has flagged cells while other
\* cells were revealed before it
C31_Witness ==
    /\ Returned
    /\ calls >= 2
    /\ result.kind = "Progress"
    /\ result.flagged # {}
    /\ solver.revealed # {}
    /\ result.revealed # solver.revealed

\* C32: in a drain step the cells to reveal (the regions of the solved
\* constraints with max = 0) and the cells to flag (the regions of the other
\* solved constraints) are disjoint, all reveals are applied before any
\* flag, and when the step returns every one of those cells is finalized and
\* no constraint that was in the solved set at the start remains in it.
C32_DrainRevealsThenFlags ==
    Draining =>
        /\ to_reveal(solver) \cap to_flag(solver) = {}
        /\ step_drain(solver)
               = flag_all(reveal_all({solver}, to_reveal(solver)),
                          to_flag(solver))
        /\ \A call \in reveal_calls({solver}, to_reveal(solver)) :
              call[1].flagged = solver.flagged
        /\ \A call \in flag_calls(reveal_all({solver}, to_reveal(solver)),
                                  to_flag(solver)) :
              to_reveal(solver) \subseteq call[1].revealed
        /\ \A t \in step_drain(solver) :
              /\ ~t.panicked
              /\ to_reveal(solver) \subseteq t.revealed
              /\ to_flag(solver) \subseteq t.flagged
              /\ t.solved \cap solver.solved = {}

\* a drain step that follows a Cross step has returned after revealing
\* cells and flagging cells
C32_Witness ==
    /\ Returned
    /\ calls >= 2
    /\ result.kind = "Progress"
    /\ result.revealed # {}
    /\ result.flagged # {}
    /\ result.revealed \subseteq solver.revealed
    /\ result.flagged \subseteq solver.flagged

\* the loop of step is about to pop an entry without tombstone and cross it
Crossing ==
    /\ InLoop
    /\ ~solver.panicked
    /\ nonempty_deques(solver) # {}
    /\ back(solver) \notin solver.removed

\* how many times the loops of add_all_crosses(c) cross k with c
times_crossed(s, c, k) ==
    Cardinality({square \in c.bits : k \in to_cross_at(s, c, square)})

\* the number of constraints the crossings of c with the members of ks yield
RECURSIVE crosses_total(_, _)
crosses_total(c, ks) ==
    IF ks = {} THEN 0
    ELSE LET k == CHOOSE x \in ks : TRUE
         IN  Len(cross_constraints(c, k)) + crosses_total(c, ks \ {k})

\* C33: in add_all_crosses(c), every stored constraint k other than c that
\* shares a cell with c and is not excluded by the size gate is crossed with
\* c exactly once, however many cells it shares with c; c is never crossed
\* with itself, and gated constraints are never crossed.
C33_EachPartnerCrossedOnce ==
    Crossing =>
        LET s == pop_back(solver)
            c == back(solver)
            partners == {k \in Indexed(s) :
                            /\ k # c
                            /\ k.bits \cap c.bits # {}
                            /\ ~gated(s, k)}
        IN  /\ \A k \in partners : times_crossed(s, c, k) = 1
            /\ \A k \in Indexed(s) \ partners : times_crossed(s, c, k) = 0
            /\ \A crosses \in all_crosses(s, c, c.bits, {<<>>}) :
                  /\ Len(crosses) = crosses_total(c, partners)
                  /\ Range(crosses)
                         = UNION {Range(cross_constraints(c, k)) : k \in partners}

\* the constraint about to be crossed stands in the index itself and shares
\* two cells with another stored constraint that the gate lets through
C33_Witness ==
    /\ Crossing
    /\ calls >= 1
    /\ LET s == pop_back(solver)
           c == back(solver)
       IN  /\ c \in Indexed(s)
           /\ \E k \in Indexed(s) :
                 k # c /\ ~gated(s, k) /\ Cardinality(k.bits \cap c.bits) >= 2

\* the constraint add_constraint(c) makes of c and the stored k on its region
tightened(k, c) ==
    Constraint(c.bits, max(k.min_mines, c.min_mines),
               min(k.max_mines, c.max_mines), count_ones(c.bits))

\* C34: canonicalization on add.  When add_constraint(c) finds an unsolved
\* constraint k stored on the region of c and c is not weaker than k, then k
\* leaves the unsolved map and every set of the index and gets a tombstone,
\* and afterwards exactly one constraint is stored on the region, with
\* min = max(k.min, c.min) and max = min(k.max, c.max): in the solved set if
\* it is solved, otherwise in the unsolved map and pushed once onto the deque
\* [size-1][max-min].  Stated for a store and a constraint c that agree
\* with the mines of the puzzle.
C34_TightenOnAdd ==
    [][\A c \in Injectable(solver) :
         \A k \in solver.unsolved :
           (/\ Adds(c)
            /\ Sound(solver, c)
            /\ \A x \in Stored(solver) : Sound(solver, x)
            /\ k.bits = c.bits
            /\ ~(k.min_mines >= c.min_mines /\ k.max_mines <= c.max_mines))
           => LET new == tightened(k, c)
              IN  /\ ~solver'.panicked
                  /\ k \notin solver'.unsolved
                  /\ \A i \in k.bits : k \notin solver'.square_constraints[i]
                  /\ k \in solver'.removed
                  /\ {x \in solver'.unsolved \cup solver'.solved :
                         x.bits = c.bits} = {new}
                  /\ \A i \in new.bits : new \in solver'.square_constraints[i]
                  /\ IF is_solved(new)
                     THEN /\ new \in solver'.solved
                          /\ solver'.processing_stack = solver.processing_stack
                     ELSE /\ new \in solver'.unsolved
                          /\ solver'.processing_stack =
                                 [solver.processing_stack EXCEPT
                                     ![new.size - 1]
                                      [new.max_mines - new.min_mines] =
                                         Append(@, new)]]_vars

\* this transition is a pass of the loop of step that pops an entry and
\* discards it for its tombstone
Discards ==
    /\ InLoop
    /\ nonempty_deques(solver) # {}
    /\ back(solver) \in solver.removed
    /\ solver' # solver

\* C35: every member of the tombstone set is a constraint that still has a
\* stale entry in some deque of the work queue, and a pop never discards the
\* entry of a constraint that is live in the unsolved map.
C35_TombstonesMatchQueue ==
    [][/\ \A c \in solver.removed : c \in Queued(solver)
       /\ Discards => back(solver) \notin solver.unsolved]_vars

\* the positions of the NewPuzzle updates in flight
new_puzzles(a) ==
    {i \in 1 .. Len(a.recieve) : a.recieve[i].kind = "NewPuzzle"}

\* the position of the last NewPuzzle update in flight, 0 without one
last_new_puzzle(a) ==
    IF new_puzzles(a) = {} THEN 0
    ELSE CHOOSE i \in new_puzzles(a) : \A j \in new_puzzles(a) : j <= i

\* the PuzzleState a Step update at position i of the channel will be
\* appended under: the one of the last NewPuzzle before it, else the one of
\* the display the GUI has
display_for(a, i) ==
    LET before == {j \in new_puzzles(a) : j < i}
    IN  IF before # {}
        THEN [kind |-> "Some",
              starting_state |->
                  a.recieve[CHOOSE j \in before :
                                \A k \in before : k <= j].state]
        ELSE IF a.puzzle = NoDisplay THEN NoDisplay
        ELSE [kind |-> "Some", starting_state |-> a.puzzle.starting_state]

\* the Step updates of the solver the engine holds: the ones in flight
\* behind the last NewPuzzle, and with no NewPuzzle in flight the ones the
\* GUI has appended too
steps_of_current(a) ==
    LET pending == [i \in 1 .. Len(a.recieve) - last_new_puzzle(a) |->
                        a.recieve[last_new_puzzle(a) + i]]
        states == [i \in DOMAIN pending |-> pending[i].state]
    IN  IF last_new_puzzle(a) = 0 /\ a.puzzle # NoDisplay
        THEN [i \in DOMAIN a.puzzle.steps |-> a.puzzle.steps[i][1]] \o states
        ELSE states

\* the state t is a later state of the puzzle of the state s
follows(s, t) ==
    /\ t.base = s.base
    /\ s.revealed \subseteq t.revealed
    /\ s.flagged \subseteq t.flagged

\* C36: the update channel.  The Step update sent for a call of step
\* carries the PuzzleState the solver has right after that call and the
\* result of that call; every Step update in flight comes behind the
\* NewPuzzle of the puzzle it is a state of (or that NewPuzzle has been
\* handled and is the display of the GUI), with no NewPuzzle of another load
\* in between; the Step updates of the solver the engine holds, handled and
\* in flight, are as many as the calls of step it has answered and the last
\* one is its present state; the GUI never handles a Step update without a
\* display, and the steps of a display are successive states of the puzzle
\* the display started from.
C36_StepsFollowTheirPuzzle ==
    /\ [](/\ ~app.panicked
          /\ \A i \in 1 .. Len(app.recieve) :
                app.recieve[i].kind = "Step" =>
                    /\ display_for(app, i) # NoDisplay
                    /\ follows(display_for(app, i).starting_state,
                               app.recieve[i].state)
          /\ app.puzzle # NoDisplay =>
                /\ \A i \in 1 .. Len(app.puzzle.steps) :
                      follows(app.puzzle.starting_state,
                              app.puzzle.steps[i][1])
                /\ \A i \in 1 .. Len(app.puzzle.steps) - 1 :
                      follows(app.puzzle.steps[i][1],
                              app.puzzle.steps[i + 1][1])
                /\ app.step <= Len(app.puzzle.steps)
          /\ IF solver = NoSolver
             THEN /\ app.puzzle = NoDisplay
                  /\ \A i \in 1 .. Len(app.recieve) :
                        app.recieve[i].kind = "PuzzleListing"
             ELSE /\ Len(steps_of_current(app)) = engine.updates
                  /\ \A i \in 1 .. Len(steps_of_current(app)) :
                        steps_of_current(app)[i].base = solver.base
                  /\ (engine.at = "recv" /\ engine.updates > 0
                         /\ ~solver.panicked) =>
                        steps_of_current(app)[engine.updates]
                            = puzzle_clone(solver))
    /\ [][/\ Responds =>
                /\ app'.recieve
                      = Append(app.recieve,
                               UpdateStep(puzzle_clone(solver'), result'))
                /\ result'.kind = "Progress" =>
                      /\ result'.revealed \subseteq solver'.revealed
                      /\ result'.flagged \subseteq solver'.flagged
          /\ (engine.at = "step" /\ engine'.at = "step") =>
                app'.recieve \in {app.recieve, <<>>}
          /\ (app' # app /\ engine' = engine) =>
                /\ app'.recieve = <<>>
                /\ app'.puzzle # NoDisplay
                      => app'.step <= Len(app'.puzzle.steps)]_vars

\* the GUI shows a puzzle with steps appended while the NewPuzzle of
\* another puzzle and a Step update of that other puzzle are in flight
C36_Witness ==
    /\ app.puzzle # NoDisplay
    /\ Len(app.puzzle.steps) >= 1
    /\ \E i, j \in 1 .. Len(app.recieve) :
          /\ i < j
          /\ app.recieve[i].kind = "NewPuzzle"
          /\ app.recieve[i].state.base # app.puzzle.starting_state.base
          /\ app.recieve[j].kind = "Step"

====
